---------------------------- MODULE Spec2Model ----------------------------
(***************************************************************************)
(* Model of ai-agents-sandbox/travel-recommender-agent.py:                 *)
(*   - DestinationPlugin (constructor and get_random_destination), and     *)
(*   - main(): the turn loop that streams the agent's response and folds   *)
(*     it into agent_name, full_response, function_calls, function_results.*)
(*                                                                         *)
(* Python strings whose characters matter (the streamed content, which is  *)
(* tested with str.strip()) are sequences of one-character strings.  The   *)
(* f-string log lines are sequences of their pieces.  Python's None is the *)
(* value None.  A dict is a function whose DOMAIN is the set of its keys.  *)
(***************************************************************************)
EXTENDS Integers, Sequences, FiniteSets, TLC

VARIABLES
    \* ---- DestinationPlugin instance (lines 46-90)
    destinations,         \* self.destinations
    latest_destination,   \* self.latest_destination
    result,               \* what the most recent invocation returned or raised
    prev_result,          \* what the invocation before that returned or raised
    calls,                \* number of invocations made so far
    init_destinations,    \* self.destinations as the constructor left it
    \* ---- main() (lines 147-214)
    pc,                   \* "loop" | "streaming" | "done" | "aborted"
    turn,                 \* index into user_inputs of the current iteration
    chat_history,         \* ChatHistory: sequence of [role, content]
    agent_name,           \* local agent_name
    full_response,        \* local full_response
    function_calls,       \* local function_calls (list of log lines)
    function_results,     \* local function_results (dict)
    received,             \* content and items of the units yielded in this turn
    history_at_turn_start \* chat_history as it was when the iteration began

pluginVars == <<destinations, latest_destination, result, prev_result, calls,
                init_destinations>>

mainVars == <<pc, turn, chat_history, agent_name, full_response, function_calls,
              function_results, received, history_at_turn_start>>

vars == <<destinations, latest_destination, result, prev_result, calls,
          init_destinations, pc, turn, chat_history, agent_name, full_response,
          function_calls, function_results, received, history_at_turn_start>>

None == "None"

(***************************************************************************)
(* Bounds of the model.                                                    *)
(***************************************************************************)
\* invocations of get_random_destination explored on one instance
MaxCalls == 4
\* longest destination list explored besides the constructor's own
MaxDests == 3
\* units one invoke_stream yields in a turn
MaxUnits == 2
\* call-related items one turn's units carry in total
MaxCallItems == 2

(***************************************************************************)
(* Generic list helpers.                                                   *)
(***************************************************************************)
Range(s) == {s[i] : i \in 1..Len(s)}

\* every sequence over S of length at most n
SeqsUpTo(S, n) == UNION {[1..k -> S] : k \in 0..n}

NoDuplicates(s) == \A i, j \in 1..Len(s) : i # j => s[i] # s[j]

\* list.remove(x): drops the first occurrence of x
RECURSIVE Remove(_, _)
Remove(s, x) ==
    IF s = <<>> THEN <<>>
    ELSE IF Head(s) = x THEN Tail(s)
    ELSE <<Head(s)>> \o Remove(Tail(s), x)

(***************************************************************************)
(* DestinationPlugin                                                       *)
(***************************************************************************)
\* DestinationPlugin.__init__: the vacation destination list
ConstructorDestinations ==
    << "Barcelona, Spain", "Paris, France", "Berlin, Germany", "Tokyo, Japan",
       "Sydney, Australia", "New York, USA", "Cairo, Egypt",
       "Cape Town, South Africa", "Rio de Janeiro, Brazil", "Bali, Indonesia" >>

\* what random.choice raises on an empty sequence
IndexError == "IndexError"
\* the error the specification names for an empty candidate list
NoAvailableDestinationError == "NoAvailableDestinationError"

\* The destination lists an instance is explored with: the constructor's list,
\* and every duplicate-free list of at most MaxDests of its first entries
\* (the list is a set of candidates: no entry occurs twice).
DestinationLists ==
    {ConstructorDestinations} \cup
    {l \in SeqsUpTo({ConstructorDestinations[i] : i \in 1..MaxDests}, MaxDests) :
        NoDuplicates(l)}

\* lines 76-80 without the removal: the candidates are the whole list
AvailableKeepingLatest(dests, latest) == dests

\* lines 76-80: a copy of the list, without the latest destination if it is there
AvailableDestinations(dests, latest) ==
    IF latest \in Range(dests) THEN Remove(dests, latest) ELSE dests

PluginConstructed ==
    /\ destinations = ConstructorDestinations
    /\ latest_destination = None
    /\ result = None
    /\ prev_result = None
    /\ calls = 0
    /\ init_destinations = destinations

PluginInit ==
    /\ destinations \in DestinationLists
    /\ latest_destination = None
    /\ result = None
    /\ prev_result = None
    /\ calls = 0
    /\ init_destinations = destinations

\* get_random_destination working on the list itself instead of a copy
get_random_destination_in_place ==
    /\ calls < MaxCalls
    /\ calls' = calls + 1
    /\ prev_result' = result
    /\ init_destinations' = init_destinations
    /\ LET available == AvailableDestinations(destinations, latest_destination) IN
       IF available = <<>>
       THEN /\ result' = IndexError
            /\ UNCHANGED <<latest_destination, destinations>>
       ELSE \E i \in 1..Len(available) :
                /\ result' = available[i]
                /\ latest_destination' = available[i]
                /\ destinations' = available

\* lines 72-90: one invocation of get_random_destination
get_random_destination ==
    /\ calls < MaxCalls
    /\ calls' = calls + 1
    /\ prev_result' = result
    /\ UNCHANGED <<destinations, init_destinations>>
    /\ LET available == AvailableDestinations(destinations, latest_destination) IN
       IF available = <<>>
       THEN \* random.choice raises IndexError before latest_destination is set
            /\ result' = IndexError
            /\ UNCHANGED latest_destination
       ELSE \E i \in 1..Len(available) :
                /\ result' = available[i]
                /\ latest_destination' = available[i]

(***************************************************************************)
(* main(): the streamed units                                              *)
(***************************************************************************)
\* line 127
AGENT_NAME == "TravelAgent"

\* lines 153-158
user_inputs ==
    << "Plan me a day trip.",
       "I don't like that destination. Plan me another vacation.",
       "I want to book a flight to the destination you suggested, on the next Friday.",
       "Actually, I am busy then. Book me a flight to the destination you suggested, on the next Saturday." >>

\* FunctionCallContent(function_name, arguments)
FunctionCallContent(fname, arguments) ==
    [type |-> "FunctionCallContent", function_name |-> fname,
     arguments |-> arguments, result |-> None]

\* FunctionResultContent(function_name, result)
FunctionResultContent(fname, res) ==
    [type |-> "FunctionResultContent", function_name |-> fname,
     arguments |-> None, result |-> res]

\* the call-related items a unit's items list is drawn from
CallItems ==
    { FunctionCallContent("get_random_destination", "{}"),
      FunctionCallContent("book_flight", "{date, location}"),
      FunctionResultContent("get_random_destination", "Bali, Indonesia"),
      FunctionResultContent("get_random_destination", "Paris, France") }

\* the values content.content is drawn from: empty, whitespace only, prose,
\* and prose with leading whitespace
Contents == { <<>>, <<" ">>, <<"a">>, <<" ", "b">> }

\* the values content.name is drawn from
ContentNames == {None, AGENT_NAME}

\* one streamed unit: what invoke_stream yields at line 176
Units ==
    [name : ContentNames, content : Contents,
     items : SeqsUpTo(CallItems, MaxCallItems)]

\* isinstance(item, (FunctionCallContent, FunctionResultContent))
IsCallRelated(item) ==
    item.type \in {"FunctionCallContent", "FunctionResultContent"}

IsWhitespace(c) == c \in {" ", "\t", "\n"}

\* str.strip(): the string without its leading and trailing whitespace
RECURSIVE LStrip(_)
LStrip(s) ==
    IF s # <<>> /\ IsWhitespace(Head(s)) THEN LStrip(Tail(s)) ELSE s

RECURSIVE RStrip(_)
RStrip(s) ==
    IF s # <<>> /\ IsWhitespace(s[Len(s)])
    THEN RStrip(SubSeq(s, 1, Len(s) - 1)) ELSE s

Strip(s) == RStrip(LStrip(s))

\* lines 177-178: the name of the first unit that carries one
AgentNameAfter(name, content) ==
    IF name = None THEN content.name ELSE name

\* line 183 / line 186: the log line of one item
LogLine(item) ==
    IF item.type = "FunctionCallContent"
    THEN <<"Calling: ", item.function_name, "(", item.arguments, ")">>
    ELSE <<"Result: ", item.result>>

\* lines 181-187 putting each new line at the front of the list
CallLinesReversed(items) ==
    [i \in 1..Len(items) |-> LogLine(items[Len(items) + 1 - i])]

\* lines 181-187: the lines one unit's items append to function_calls
CallLines(items) == [i \in 1..Len(items) |-> LogLine(items[i])]

\* dict[key] = value
DictSet(d, key, value) ==
    [k \in DOMAIN d \cup {key} |-> IF k = key THEN value ELSE d[k]]

\* lines 185-189 keeping the first result stored under a name
RECURSIVE StoreResultsFirstWins(_, _)
StoreResultsFirstWins(results, items) ==
    IF items = <<>> THEN results
    ELSE LET item == Head(items) IN
         StoreResultsFirstWins(
            IF item.type = "FunctionResultContent"
               /\ item.function_name \notin DOMAIN results
            THEN DictSet(results, item.function_name, item.result)
            ELSE results,
            Tail(items))

\* lines 185-189: function_results after one unit's items
RECURSIVE StoreResults(_, _)
StoreResults(results, items) ==
    IF items = <<>> THEN results
    ELSE LET item == Head(items) IN
         StoreResults(
            IF item.type = "FunctionResultContent"
            THEN DictSet(results, item.function_name, item.result)
            ELSE results,
            Tail(items))

\* lines 192-200 without the test for call-related items
AppendsContentIgnoringItems(content) ==
    /\ content.content # <<>>
    /\ Strip(content.content) # <<>>

\* lines 192-200: whether the unit's content is added to full_response
AppendsContent(content) ==
    /\ content.content # <<>>
    /\ Strip(content.content) # <<>>
    /\ ~ \E i \in 1..Len(content.items) : IsCallRelated(content.items[i])

\* the number of call-related items in a sequence of units
RECURSIVE ItemCount(_)
ItemCount(units) ==
    IF units = <<>> THEN 0
    ELSE Len(Head(units).items) + ItemCount(Tail(units))

EmptyDict == [k \in {} |-> None]

(***************************************************************************)
(* main(): the turn loop                                                   *)
(***************************************************************************)
MainInit ==
    /\ pc = "loop"
    /\ turn = 0
    /\ chat_history = <<>>
    /\ agent_name = None
    /\ full_response = <<>>
    /\ function_calls = <<>>
    /\ function_results = EmptyDict
    /\ received = <<>>
    /\ history_at_turn_start = <<>>

\* lines 160-173 without emptying function_calls and function_results
BeginTurnKeepingCalls ==
    /\ pc = "loop"
    /\ turn < Len(user_inputs)
    /\ turn' = turn + 1
    /\ history_at_turn_start' = chat_history
    /\ chat_history' =
          Append(chat_history, [role |-> "user", content |-> user_inputs[turn + 1]])
    /\ agent_name' = None
    /\ full_response' = <<>>
    /\ UNCHANGED <<function_calls, function_results>>
    /\ received' = <<>>
    /\ pc' = "streaming"

\* lines 160-173: the next user input is added to the chat history and the
\* turn's accumulators are created
BeginTurn ==
    /\ pc = "loop"
    /\ turn < Len(user_inputs)
    /\ turn' = turn + 1
    /\ history_at_turn_start' = chat_history
    /\ chat_history' =
          Append(chat_history, [role |-> "user", content |-> user_inputs[turn + 1]])
    /\ agent_name' = None
    /\ full_response' = <<>>
    /\ function_calls' = <<>>
    /\ function_results' = EmptyDict
    /\ received' = <<>>
    /\ pc' = "streaming"

\* lines 176-201: one iteration of the async for over invoke_stream
ConsumeUnit ==
    /\ pc = "streaming"
    /\ Len(received) < MaxUnits
    /\ \E content \in Units :
          /\ ItemCount(received) + Len(content.items) <= MaxCallItems
          /\ received' = Append(received, [content |-> content.content,
                                            items |-> content.items])
          /\ agent_name' = AgentNameAfter(agent_name, content)
          /\ function_calls' = function_calls \o CallLines(content.items)
          /\ function_results' = StoreResults(function_results, content.items)
          /\ full_response' =
                IF AppendsContent(content)
                THEN full_response \o content.content
                ELSE full_response
    /\ UNCHANGED <<pc, turn, chat_history, history_at_turn_start>>

\* lines 203-214: the stream is exhausted; the call log, the agent's name and
\* the response are printed, and the loop goes to the next input or ends
EndStream ==
    /\ pc = "streaming"
    /\ pc' = IF turn = Len(user_inputs) THEN "done" ELSE "loop"
    /\ UNCHANGED <<turn, chat_history, agent_name, full_response, function_calls,
                   function_results, received, history_at_turn_start>>

\* line 176: invoke_stream raises (or the task is cancelled) while the turn's
\* units are being consumed; nothing in main() catches it
StreamFails ==
    /\ pc = "streaming"
    /\ pc' = "aborted"
    /\ UNCHANGED <<turn, chat_history, agent_name, full_response, function_calls,
                   function_results, received, history_at_turn_start>>

(***************************************************************************)
(* Specifications                                                          *)
(***************************************************************************)
Init == MainInit /\ PluginConstructed

Next ==
    \/ BeginTurn /\ UNCHANGED pluginVars
    \/ ConsumeUnit /\ UNCHANGED pluginVars
    \/ EndStream /\ UNCHANGED pluginVars
    \/ StreamFails /\ UNCHANGED pluginVars

\* main() driving the four user inputs
Spec == Init /\ [][Next]_vars

InitPlugin == MainInit /\ PluginInit

NextPlugin == get_random_destination /\ UNCHANGED mainVars

\* one DestinationPlugin instance invoked again and again
SpecPlugin == InitPlugin /\ [][NextPlugin]_vars

(***************************************************************************)
(* What the units received in a turn amount to, computed from the whole    *)
(* list of units rather than step by step.                                 *)
(***************************************************************************)
\* the items of all the units, in arrival order
RECURSIVE AllItems(_)
AllItems(units) ==
    IF units = <<>> THEN <<>>
    ELSE Head(units).items \o AllItems(Tail(units))

\* the content of all the units, concatenated in arrival order
RECURSIVE AllContent(_)
AllContent(units) ==
    IF units = <<>> THEN <<>>
    ELSE Head(units).content \o AllContent(Tail(units))

\* the content of the units that carry no item and are not blank
RECURSIVE ProseOfItemFreeUnits(_)
ProseOfItemFreeUnits(units) ==
    IF units = <<>> THEN <<>>
    ELSE LET u == Head(units) IN
         (IF u.items = <<>> /\ \E i \in 1..Len(u.content) : ~IsWhitespace(u.content[i])
          THEN u.content ELSE <<>>)
         \o ProseOfItemFreeUnits(Tail(units))

IsCallingLine(line) == line[1] = "Calling: "

IsRequest(item) == item.type = "FunctionCallContent"

IsResult(item) == item.type = "FunctionResultContent"

\* the turn's stream has been consumed to its end and rendered
TurnEnded == turn >= 1 /\ pc \in {"loop", "done"}

(***************************************************************************)
(* DestinationPlugin claims (checked under SpecPlugin)                     *)
(***************************************************************************)
\* C1: on one instance whose list has at least two distinct entries, an
\* invocation never returns the value the invocation before it returned,
\* whatever the random choices.
C1_NoConsecutiveRepeat ==
    (Cardinality(Range(destinations)) >= 2 /\ calls >= 2)
        => /\ result \in Range(destinations)
           /\ prev_result \in Range(destinations)
           /\ result # prev_result

\* a two-entry instance has been invoked three times or more
C1_Witness ==
    /\ Cardinality(Range(destinations)) = 2
    /\ calls >= 3
    /\ result \in Range(destinations)
    /\ prev_result \in Range(destinations)

\* C7 (as claimed): on a one-entry list the first invocation returns the entry
\* and the second fails with NoAvailableDestinationError.
C7_SecondCallRaisesNoAvailableDestinationError ==
    Len(init_destinations) = 1
        => /\ (calls = 1 => result = init_destinations[1])
           /\ (calls = 2 => result = NoAvailableDestinationError)

\* C10: latest_destination is unset only while no invocation has succeeded,
\* otherwise it is an entry of the list and the value most recently returned;
\* the list is never changed; a failed invocation leaves latest_destination
\* as it was.
C10_LatestDestination ==
    /\ [](/\ destinations = init_destinations
          /\ latest_destination = None \/ latest_destination \in Range(destinations)
          /\ latest_destination = None => (calls = 0 \/ result = IndexError)
          /\ result \in Range(destinations) => latest_destination = result)
    /\ [][(calls' = calls + 1 /\ result' = IndexError)
             => latest_destination' = latest_destination]_vars

\* an invocation has failed after one that succeeded
C10_Witness ==
    /\ calls >= 2
    /\ result = IndexError
    /\ latest_destination \in Range(destinations)

(***************************************************************************)
(* main() claims (checked under Spec)                                      *)
(***************************************************************************)
\* C2 (as claimed): at the end of a turn whose units carry no call-related
\* item, full_response is the concatenation of every unit's content, blank
\* ones included, and function_calls is empty.
C2_TextOnlyTurnIsFullConcatenation ==
    (TurnEnded /\ AllItems(received) = <<>>)
        => /\ full_response = AllContent(received)
           /\ function_calls = <<>>

\* C3: a unit that carries a call-related item adds none of its content to
\* full_response while its items are still logged; full_response holds only
\* the content of item-free units, in arrival order.
C3_CallUnitsAddNoProse ==
    /\ full_response = ProseOfItemFreeUnits(received)
    /\ \A i \in 1..Len(AllItems(received)) :
          LogLine(AllItems(received)[i]) \in Range(function_calls)

\* a turn ended in which a unit with prose and an item came before a unit
\* with prose alone
C3_Witness ==
    /\ TurnEnded
    /\ Len(received) = 2
    /\ received[1].content = <<"a">> /\ received[1].items # <<>>
    /\ received[2].content = <<" ", "b">> /\ received[2].items = <<>>
    /\ full_response = <<" ", "b">>
    /\ function_calls # <<>>

\* C4: the "Calling:" lines of function_calls are, one for one and in the
\* same order, the FunctionCallContent items received in the turn.
C4_CallingLinesMatchRequests ==
    LET requests == SelectSeq(AllItems(received), IsRequest)
        calling  == SelectSeq(function_calls, IsCallingLine)
    IN /\ Len(calling) = Len(requests)
       /\ \A i \in 1..Len(requests) : calling[i] = LogLine(requests[i])

\* a turn ended with two different requests logged
C4_Witness ==
    /\ TurnEnded
    /\ Len(function_calls) = 2
    /\ IsCallingLine(function_calls[1]) /\ IsCallingLine(function_calls[2])
    /\ function_calls[1] # function_calls[2]

\* C5: the keys of function_results are exactly the function names of the
\* FunctionResultContent items received in the turn, each mapped to the
\* result of the last such item; a request without a result is logged and
\* adds no key.
C5_ResultsAreLastPerName ==
    LET items == AllItems(received)
        at(n) == {i \in 1..Len(items) : IsResult(items[i]) /\ items[i].function_name = n}
        last(n) == CHOOSE i \in at(n) : \A j \in at(n) : j <= i
    IN /\ DOMAIN function_results =
             {items[i].function_name : i \in {j \in 1..Len(items) : IsResult(items[j])}}
       /\ \A n \in DOMAIN function_results :
             function_results[n] = items[last(n)].result
       /\ \A i \in 1..Len(items) :
             IsRequest(items[i]) => LogLine(items[i]) \in Range(function_calls)

\* a turn ended in which one function's result arrived twice with different
\* values
C5_Witness ==
    /\ TurnEnded
    /\ Len(AllItems(received)) = 2
    /\ IsResult(AllItems(received)[1]) /\ IsResult(AllItems(received)[2])
    /\ AllItems(received)[1].result # AllItems(received)[2].result
    /\ function_results["get_random_destination"] = AllItems(received)[2].result

\* C6 (as claimed): when a turn ends the chat history ends with an assistant
\* message holding full_response, so that a turn starts with the user and
\* assistant messages of every earlier turn followed by its own user message.
C6_AssistantTurnAppended ==
    /\ TurnEnded =>
          /\ chat_history # <<>>
          /\ chat_history[Len(chat_history)].role = "assistant"
          /\ chat_history[Len(chat_history)].content = full_response
    /\ pc = "streaming" =>
          /\ Len(chat_history) = 2 * turn - 1
          /\ \A k \in 1..turn :
                chat_history[2 * k - 1] = [role |-> "user", content |-> user_inputs[k]]
          /\ \A k \in 1..(turn - 1) : chat_history[2 * k].role = "assistant"

\* C8 (as claimed): after the stream has failed in the middle of a turn, the
\* chat history is what it was before the turn started.
C8_FailedTurnLeavesHistoryUntouched ==
    pc = "aborted" => chat_history = history_at_turn_start

\* C9: every turn starts with agent_name unset and full_response,
\* function_calls and function_results empty, and what they hold later in the
\* turn comes from that turn's units alone.
C9_AccumulatorsFreshPerTurn ==
    /\ (pc = "streaming" /\ received = <<>>) =>
          /\ agent_name = None
          /\ full_response = <<>>
          /\ function_calls = <<>>
          /\ function_results = EmptyDict
    /\ Len(function_calls) = Len(AllItems(received))
    /\ Len(full_response) <= Len(AllContent(received))
    /\ Cardinality(DOMAIN function_results) <= Len(AllItems(received))

\* a later turn has just started
C9_Witness ==
    /\ turn >= 2
    /\ pc = "streaming"
    /\ received = <<>>
    /\ function_calls = <<>>

=============================================================================
